---- MODULE Spec2Model ----
(***************************************************************************)
(* A model of the SHL assessment recommender: the catalog loader, the      *)
(* embedder and flat L2 index (engine.py) and the /recommend handler       *)
(* (main.py).                                                              *)
(*                                                                         *)
(* Python values are tagged records [t, v]: t is the Python/JSON type and  *)
(* v the payload.  A str is a sequence of one-character strings (a fixed   *)
(* template text is kept as one chunk), a list is a sequence of values, a  *)
(* dict is a function from keys to values.                                 *)
(***************************************************************************)
EXTENDS Integers, Sequences, FiniteSets, TLC

VARIABLES
    entry,       \* how the program is entered: "service", "cli", "load_data" or "library"
    file,        \* the catalog file shl_products.json
    env_key,     \* GEMINI_API_KEY as the environment gives it (None when unset)
    model_loads, \* whether SentenceTransformer(model_name) can load the model
    cache,       \* the lru_cache of get_engine
    pc,          \* where the /recommend handler stands
    req,         \* the local variables of the /recommend request being handled
    response,    \* the response to that request, NoResponse until it is sent
    load_out,    \* outcome of a direct call load_data(file), or NotCalled
    lib_emb,     \* library entry: the embeddings handed to create_faiss_index
    lib_meta,    \* library entry: the metadata list handed to get_top_k_recommendations
    lib_index,   \* library entry: outcome of create_faiss_index, or NotCalled
    lib_out,     \* library entry: the last get_top_k_recommendations call
    pipeline_runs, \* how often the load -> embed -> index pipeline was started
    builds,      \* how many indexes create_faiss_index has built
    main_out,    \* outcome of engine.py main(), or NotCalled
    main_engine  \* main()'s locals model, index and data, once a block has set them

vars == <<entry, file, env_key, model_loads, cache, pc, req, response,
          load_out, lib_emb, lib_meta, lib_index, lib_out,
          pipeline_runs, builds, main_out, main_engine>>

(***************************************************************************)
(* Bounds of the model.                                                    *)
(***************************************************************************)
MaxRecords == 3   \* longest catalog list
MaxNull    == 1   \* most JSON nulls in one raw record of the loader's inputs
MaxSetups  == 2   \* most runs of setup_engine that fail before requests stop coming

(***************************************************************************)
(* Python / JSON values.                                                   *)
(***************************************************************************)
Str(s)   == [t |-> "str",  v |-> s]
Num(n)   == [t |-> "num",  v |-> <<n>>]
List(s)  == [t |-> "list", v |-> s]
Dict(f)  == [t |-> "dict", v |-> f]
None     == [t |-> "null", v |-> <<>>]
NotJson  == [t |-> "notjson", v |-> <<>>]   \* file text json.load cannot parse
EmptyStr == Str(<<>>)
EmptyDict == Dict(<<>>)

\* The outcome of a call: a returned value, or a raised exception.
Return(x) == [ok |-> TRUE,  val |-> x,    err |-> "none"]
Raise(e)  == [ok |-> FALSE, val |-> None, err |-> e]
NotCalled == [ok |-> FALSE, val |-> None, err |-> "not called"]

\* dict.get(key, default)
DictGetOrNone(item, key, default) ==
    IF key \in DOMAIN item.v THEN item.v[key] ELSE None

DictGet(item, key, default) ==
    IF key \in DOMAIN item.v THEN item.v[key] ELSE default

(***************************************************************************)
(* The catalog loader, engine.py load_data.                                *)
(***************************************************************************)
\* The raw field each normalized field is read from (engine.py 33-42).
SourceOf ==
    [assessment_name |-> "Title",
     assessment_type |-> "Product Type",
     remote_testing  |-> "Remote Testing",
     adaptive_irt    |-> "Adaptive/IRT",
     test_type       |-> "Test Type",
     description     |-> "Description",
     job_levels      |-> "Job Levels",
     languages       |-> "Languages",
     duration        |-> "Assessment Length",
     url             |-> "Detail Page"]

NormalizedFields == DOMAIN SourceOf
SourceFields == {SourceOf[k] : k \in NormalizedFields}

\* The standardized assessment entry built from one raw item.
Assessment(item) == [k \in NormalizedFields |-> DictGet(item, SourceOf[k], EmptyStr)]

LoadDataKeepEmpty(f) ==
    IF ~f.exists THEN Raise("FileNotFoundError")
    ELSE IF f.content.t = "notjson" THEN Raise("JSONDecodeError")
    ELSE IF f.content.t # "list" THEN Raise("ValueError")
    ELSE IF \E i \in 1..Len(f.content.v) : f.content.v[i].t # "dict"
         THEN Raise("AttributeError")
    ELSE Return([i \in 1..Len(f.content.v) |-> Assessment(f.content.v[i])])

LoadData(f) ==
    IF ~f.exists THEN Raise("FileNotFoundError")
    ELSE IF f.content.t = "notjson" THEN Raise("JSONDecodeError")
    ELSE IF f.content.t # "list" \/ f.content.v = <<>> THEN Raise("ValueError")
    ELSE IF \E i \in 1..Len(f.content.v) : f.content.v[i].t # "dict"
         THEN Raise("AttributeError")
    ELSE Return([i \in 1..Len(f.content.v) |-> Assessment(f.content.v[i])])

(***************************************************************************)
(* Catalog files.                                                          *)
(***************************************************************************)
\* A value the scraper writes for each field (shl_scraper.py 110-121).
ScrapedValue ==
    [k \in SourceFields |->
        CASE k = "Title"             -> Str(<<"T">>)
          [] k = "Product Type"      -> Str(<<"I">>)
          [] k = "Remote Testing"    -> Str(<<"Y", "e", "s">>)
          [] k = "Adaptive/IRT"      -> Str(<<"N", "o">>)
          [] k = "Test Type"         -> Str(<<"K", "P">>)
          [] k = "Description"       -> Str(<<"d">>)
          [] k = "Job Levels"        -> Str(<<"m">>)
          [] k = "Languages"         -> Str(<<"e">>)
          [] k = "Assessment Length" -> Str(<<"=", " ", "3", "0">>)
          [] OTHER                   -> Str(<<"u">>)]

\* Raw records with any subset of the fields present, at most MaxNull of
\* them holding a JSON null.
RawRecords ==
    UNION { { Dict([k \in S |-> IF k \in Nl THEN None ELSE ScrapedValue[k]]) :
                Nl \in {X \in SUBSET S : Cardinality(X) <= MaxNull} } :
            S \in SUBSET SourceFields }

File(exists, content) == [exists |-> exists, content |-> content]

MissingFile == File(FALSE, NotJson)

\* Files whose text is not a non-empty list of objects.
BadFiles ==
    {MissingFile} \cup
    {File(TRUE, c) : c \in {NotJson, List(<<>>), EmptyDict, Str(<<"x">>), Num(7), None,
                            Dict([k \in {"Title"} |-> Str(<<"T">>)]),
                            List(<<Num(7)>>)}}


(***************************************************************************)
(* str methods used by the program.                                        *)
(***************************************************************************)
Whitespace == {" ", "\t", "\n"}
Digits == <<"0", "1", "2", "3", "4", "5", "6", "7", "8", "9">>
UpperCase == <<"A", "B", "C", "D", "E", "F", "G", "H", "I", "J", "K", "L", "M",
               "N", "O", "P", "Q", "R", "S", "T", "U", "V", "W", "X", "Y", "Z">>
LowerCase == <<"a", "b", "c", "d", "e", "f", "g", "h", "i", "j", "k", "l", "m",
               "n", "o", "p", "q", "r", "s", "t", "u", "v", "w", "x", "y", "z">>

IsDigit(c) == \E i \in 1..Len(Digits) : Digits[i] = c
DigitVal(c) == (CHOOSE i \in 1..Len(Digits) : Digits[i] = c) - 1

RECURSIVE LStrip(_)
LStrip(s) == IF s # <<>> /\ Head(s) \in Whitespace THEN LStrip(Tail(s)) ELSE s

RECURSIVE RStrip(_)
RStrip(s) ==
    IF s # <<>> /\ s[Len(s)] \in Whitespace THEN RStrip(SubSeq(s, 1, Len(s) - 1)) ELSE s

\* str.strip()
Strip(s) == RStrip(LStrip(s))

\* str.lower()
LowerChar(c) ==
    IF \E i \in 1..Len(UpperCase) : UpperCase[i] = c
    THEN LowerCase[CHOOSE i \in 1..Len(UpperCase) : UpperCase[i] = c]
    ELSE c
Lower(s) == [i \in 1..Len(s) |-> LowerChar(s[i])]

\* sub in s, for two strs
Contains(sub, s) ==
    \E i \in 0..(Len(s) - Len(sub)) : SubSeq(s, i + 1, i + Len(sub)) = sub

\* bool(x), for the values a catalog field can hold
Truthy(x) ==
    CASE x.t = "null" -> FALSE
      [] x.t = "num"  -> x.v # <<0>>
      [] OTHER        -> x.v # <<>>

(***************************************************************************)
(* Query enrichment, engine.py enrich_query_with_gemini.                   *)
(***************************************************************************)
\* What requests.post gives: an exception, or a response with a status and a body.
Http(raised, status, body) == [raised |-> raised, status |-> status, body |-> body]

\* x[key] for a str key or an int key; Raise(..) where Python raises.
Subscript(x, key) ==
    CASE x.t = "dict" ->
            IF key.t = "str" /\ key.v \in DOMAIN x.v THEN Return(x.v[key.v])
            ELSE Raise("KeyError")
      [] x.t = "list" ->
            IF key.t # "num" THEN Raise("TypeError")
            ELSE IF key.v[1] + 1 \in 1..Len(x.v) THEN Return(x.v[key.v[1] + 1])
            ELSE Raise("IndexError")
      [] x.t = "str" ->
            IF key.t # "num" THEN Raise("TypeError")
            ELSE IF key.v[1] + 1 \in 1..Len(x.v) THEN Return(Str(<<x.v[key.v[1] + 1]>>))
            ELSE Raise("IndexError")
      [] OTHER -> Raise("TypeError")

Key(k) == [t |-> "str", v |-> k]

\* ['candidates'][0]['content']['parts'][0]['text']
TextPath == <<Key("candidates"), Num(0), Key("content"), Key("parts"), Num(0), Key("text")>>

RECURSIVE Walk(_, _)
Walk(x, path) ==
    IF path = <<>> THEN Return(x)
    ELSE LET step == Subscript(x, Head(path))
         IN  IF step.ok THEN Walk(step.val, Tail(path)) ELSE step

\* The body of the try block: what it returns, or the exception it raises.
EnrichTry(http) ==
    IF http.raised THEN Raise("ConnectionError")
    ELSE IF http.status >= 400 /\ http.status < 600 THEN Raise("HTTPError")
    ELSE IF http.body.t = "notjson" THEN Raise("JSONDecodeError")
    ELSE LET text == Walk(http.body, TextPath)
         IN  IF ~text.ok THEN text
             ELSE IF text.val.t # "str" THEN Raise("AttributeError")
             ELSE Return(Str(Strip(text.val.v)))

EnrichQueryStrict(prompt, api_key, http) == EnrichTry(http)

EnrichQueryTrimmed(prompt, api_key, http) ==
    IF EnrichTry(http).ok THEN EnrichTry(http) ELSE Return(Str(Strip(prompt.v)))

EnrichQuery(prompt, api_key, http) ==
    IF EnrichTry(http).ok THEN EnrichTry(http) ELSE Return(prompt)

(***************************************************************************)
(* Embeddings and the flat L2 index, engine.py create_embeddings,          *)
(* create_faiss_index and get_top_k_recommendations.  The embedding model  *)
(* and the index are library code: an embedding is some vector of the      *)
(* model's space, the index holds the rows it was given.                   *)
(***************************************************************************)
MaxCoord == 1     \* coordinates of a vector are 0..MaxCoord
MaxK     == 4     \* largest top_k of a direct library call

Vectors == {<<c>> : c \in 0..MaxCoord}

RECURSIVE L2(_, _)
L2(a, b) ==
    IF a = <<>> THEN 0
    ELSE (Head(a) - Head(b)) * (Head(a) - Head(b)) + L2(Tail(a), Tail(b))

\* A numpy array of embeddings: model.encode of an empty list has shape (0,).
Matrix(rows) == [ndim |-> 2, rows |-> rows]
EmptyArray   == [ndim |-> 1, rows |-> <<>>]

\* What model.encode can return for n texts.
Encodings(n) == IF n = 0 THEN {EmptyArray} ELSE {Matrix(r) : r \in [1..n -> Vectors]}

\* create_embeddings: the embeddings of the records of data, given that the
\* model loads (loads = FALSE: SentenceTransformer(model_name) raises).
CreateEmbeddings(data, loads, encoded) ==
    IF ~loads THEN Raise("OSError") ELSE Return(encoded)

CreateFaissIndexDropLast(embeddings) ==
    IF embeddings.ndim < 2 THEN Raise("IndexError")
    ELSE Return(SubSeq(embeddings.rows, 1, Len(embeddings.rows) - 1))

\* create_faiss_index: the rows of the index, in the order they were added.
CreateFaissIndex(embeddings) ==
    IF embeddings.ndim < 2 THEN Raise("IndexError")
    ELSE Return(embeddings.rows)

Min(a, b) == IF a <= b THEN a ELSE b

\* Injective sequences of length n over 0..(N-1).
Arrangements(N, n) ==
    {s \in [1..n -> 0..(N - 1)] : \A i, j \in 1..n : i # j => s[i] # s[j]}

\* index.search(query, k): the labels of the min(k, ntotal) nearest rows in
\* ascending distance (ties in any order), then -1 up to length k.
FaissSearch(index, q, k) ==
    LET N == Len(index)
        n == Min(k, N)
    IN  { [i \in 1..k |-> IF i <= n THEN s[i] ELSE -1] :
            s \in { a \in Arrangements(N, n) :
                      /\ \A i \in 1..(n - 1) :
                            L2(q, index[a[i] + 1]) <= L2(q, index[a[i + 1] + 1])
                      /\ \A p \in 0..(N - 1) :
                            (\A i \in 1..n : a[i] # p) =>
                                \A i \in 1..n : L2(q, index[a[i] + 1]) <= L2(q, index[p + 1]) } }

\* metadata[i] of a Python list: the 1-based position read, 0 if IndexError.
ListPosition(N, i) ==
    IF i >= 0 /\ i < N THEN i + 1
    ELSE IF i < 0 /\ i >= -N THEN N + i + 1
    ELSE 0

GetTopKWhole(labels, metadata) == Return(metadata)

GetTopKSkipMissing(labels, metadata) ==
    LET Found(i) == ListPosition(Len(metadata), i) # 0 /\ i >= 0
        kept == SelectSeq(labels, Found)
    IN  Return([j \in 1..Len(kept) |-> metadata[kept[j] + 1]])

\* [metadata[i] for i in indices[0]]
GetTopK(labels, metadata) ==
    IF \E j \in 1..Len(labels) : ListPosition(Len(metadata), labels[j]) = 0
    THEN Raise("IndexError")
    ELSE Return([j \in 1..Len(labels) |-> metadata[ListPosition(Len(metadata), labels[j])]])


\* enhanced_query: the text get_top_k_recommendations embeds for a query.
EnhancedQuery(query_text) == Str(<<"Find assessments matching: ">> \o query_text.v)

\* get_top_k_recommendations with the query embedding and the search result:
\* a record of the call, its labels and its outcome.
TopKCall(qv, index, metadata, k, labels) ==
    [k |-> k, qv |-> qv, labels |-> labels, out |-> GetTopK(labels, metadata)]

NoCall == [k |-> 0, qv |-> <<>>, labels |-> <<>>, out |-> NotCalled]

(***************************************************************************)
(* Formatting of one result, main.py recommend 64-107.                     *)
(***************************************************************************)
\* re.search(r'(\d+)', s) and int(group(1)); 0 when nothing matches.
RECURSIVE IntOf(_, _)
IntOf(s, acc) ==
    IF s = <<>> \/ ~IsDigit(Head(s)) THEN acc
    ELSE IntOf(Tail(s), 10 * acc + DigitVal(Head(s)))

RECURSIVE FirstNumber(_)
FirstNumber(s) ==
    IF s = <<>> THEN 0
    ELSE IF IsDigit(Head(s)) THEN IntOf(s, 0)
    ELSE FirstNumber(Tail(s))

test_type_map ==
    << <<"K", "Knowledge & Skills">>,
       <<"P", "Personality & Behaviour">>,
       <<"C", "Competencies">>,
       <<"A", "Aptitude">>,
       <<"E", "English">>,
       <<"B", "Behavioral">>,
       <<"D", "Development">>,
       <<"AEBCDP", "Multiple">> >>

\* The characters of a code of test_type_map.
CodeChars(code) ==
    IF code = "AEBCDP" THEN <<"A", "E", "B", "C", "D", "P">> ELSE <<code>>

\* code in test_type
CodeIn(code, x) ==
    CASE x.t = "str"  -> Contains(CodeChars(code), x.v)
      [] x.t = "list" -> \E i \in 1..Len(x.v) : x.v[i] = Str(CodeChars(code))
      [] OTHER        -> code \in DOMAIN x.v

TestTypes(x) ==
    LET Hit(p) == CodeIn(p[1], x)
        hits == SelectSeq(test_type_map, Hit)
        names == [i \in 1..Len(hits) |-> hits[i][2]]
    IN  IF ~Truthy(x) \/ names = <<>> THEN <<"Assessment">> ELSE names

YesNo(x) == IF Lower(x.v) = <<"y", "e", "s">> THEN "Yes" ELSE "No"

FormatResult(result) ==
    IF Truthy(result.duration) /\ result.duration.t # "str" THEN Raise("TypeError")
    ELSE IF Truthy(result.test_type) /\ result.test_type.t = "num" THEN Raise("TypeError")
    ELSE IF result.adaptive_irt.t # "str" \/ result.remote_testing.t # "str"
         THEN Raise("AttributeError")
    ELSE Return([url              |-> result.url,
                 adaptive_support |-> YesNo(result.adaptive_irt),
                 description      |-> result.description,
                 duration         |-> IF Truthy(result.duration)
                                      THEN FirstNumber(result.duration.v) ELSE 0,
                 remote_support   |-> YesNo(result.remote_testing),
                 test_type        |-> TestTypes(result.test_type)])

\* Results whose formatting raises are left out.
FormatAllSkipping(results) ==
    LET Good(r) == FormatResult(r).ok
        kept == SelectSeq(results, Good)
    IN  Return([i \in 1..Len(kept) |-> FormatResult(kept[i]).val])

\* The loop over results: the first exception ends it.
FormatAll(results) ==
    IF \E i \in 1..Len(results) : ~FormatResult(results[i]).ok
    THEN Raise("format")
    ELSE Return([i \in 1..Len(results) |-> FormatResult(results[i]).val])

\* response_model=RecommendationResponse: url and description must be str.
ValidResponse(formatted) ==
    \A i \in 1..Len(formatted) :
        formatted[i].url.t = "str" /\ formatted[i].description.t = "str"

Response(status, assessments) == [status |-> status, recommended_assessments |-> assessments]
NoResponse == Response(0, <<>>)
EmptyOk == Response(200, <<>>)
Http500 == Response(500, <<>>)


(***************************************************************************)
(* Engine setup, engine.py setup_engine, and its cache, main.py get_engine.*)
(***************************************************************************)
Engine(index, data, key) == [set |-> TRUE, index |-> index, data |-> data, key |-> key]
NoEngine == [set |-> FALSE, index |-> <<>>, data |-> <<>>, key |-> None]

\* setup_engine: load, embed (encoded is what model.encode returns), index.
SetupEngine(f, key, loads, encoded) ==
    LET data == LoadData(f)
    IN  IF ~data.ok THEN data
        ELSE LET emb == CreateEmbeddings(data.val, loads, encoded)
             IN  IF ~emb.ok THEN emb
                 ELSE LET index == CreateFaissIndex(emb.val)
                      IN  IF ~index.ok THEN index
                          ELSE Return(Engine(index.val, data.val, key))

(***************************************************************************)
(* Inputs.                                                                 *)
(***************************************************************************)
TopKService == 10   \* main.py: top_k=10
TopKDefault == 10   \* engine.py: top_k: int = 10

Dict1(k, x) == Dict([kk \in {k} |-> x])

\* A response body with x at candidates[0].content.parts[0].text.
GeminiBody(x) ==
    Dict1("candidates", List(<<Dict1("content", Dict1("parts", List(<<Dict1("text", x)>>)))>>))

HttpOutcomes ==
    { Http(TRUE, 0, None),
      Http(FALSE, 500, GeminiBody(Str(<<"j", "x">>))),
      Http(FALSE, 200, NotJson),
      Http(FALSE, 200, EmptyDict),
      Http(FALSE, 200, Dict1("candidates", List(<<>>))),
      Http(FALSE, 200, GeminiBody(Num(5))),
      Http(FALSE, 200, GeminiBody(None)),
      Http(FALSE, 200, GeminiBody(Str(<<" ", "j", "x", "\n">>))),
      Http(FALSE, 200, GeminiBody(Str(<<"k">>))) }

NoHttp == Http(FALSE, 0, None)

Queries == {Str(<<"j">>), Str(<<" ", "j", " ">>)}

EnvKeys == {None, Str(<<"k">>)}

\* Raw catalog records: as scraped; two fields missing; a null flag; a null link.
TemplateA == Dict(ScrapedValue)
TemplateB ==
    Dict([k \in SourceFields \ {"Assessment Length", "Test Type"} |->
            IF k = "Adaptive/IRT" THEN Str(<<"Y", "E", "S">>) ELSE ScrapedValue[k]])
TemplateC == Dict([k \in SourceFields |-> IF k = "Adaptive/IRT" THEN None ELSE ScrapedValue[k]])
TemplateD == Dict([k \in SourceFields |-> IF k = "Detail Page" THEN None ELSE ScrapedValue[k]])
Templates == <<TemplateA, TemplateB, TemplateC, TemplateD>>

\* The list of n records that starts at template o and cycles through them.
Window(o, n) == [i \in 1..n |-> Templates[((o + i - 2) % Len(Templates)) + 1]]

CatalogFiles ==
    {File(TRUE, List(Window(o, n))) : o \in 1..Len(Templates), n \in 1..MaxRecords}

ServiceFiles == BadFiles \cup CatalogFiles

CliFiles == BadFiles \cup {File(TRUE, List(Window(1, n))) : n \in 1..MaxRecords}

LoadFiles == BadFiles \cup CatalogFiles \cup {File(TRUE, List(<<r>>)) : r \in RawRecords}

\* The arguments of a direct library call: n records and their embeddings
\* (for n = 0 also an empty matrix of the index's width).
LibMeta(n) == [i \in 1..n |-> Assessment(Window(1, n)[i])]
LibEmbeddings(n) == IF n = 0 THEN {EmptyArray, Matrix(<<>>)} ELSE Encodings(n)
LibKs == (1..MaxK) \cup {TopKDefault}

NoReq == [query |-> None, enriched |-> None, enrich_calls |-> 0, http |-> NoHttp,
          enrich_out |-> NotCalled, embedded |-> None, call |-> NoCall]

(***************************************************************************)
(* Initial states, one per way the program is entered.                     *)
(***************************************************************************)
Idle ==
    /\ cache = NoEngine /\ req = NoReq /\ response = NoResponse
    /\ load_out = NotCalled
    /\ lib_index = NotCalled /\ lib_out = NoCall
    /\ pipeline_runs = 0 /\ builds = 0 /\ main_out = NotCalled /\ main_engine = NoEngine

InitService ==
    /\ entry = "service"
    /\ file \in ServiceFiles
    /\ env_key \in EnvKeys
    /\ model_loads \in BOOLEAN
    /\ lib_emb = EmptyArray /\ lib_meta = <<>>
    /\ pc = "idle"
    /\ Idle

\* python engine.py: main() is about to run.
InitCli ==
    /\ entry = "cli"
    /\ file \in CliFiles
    /\ env_key \in EnvKeys
    /\ model_loads \in BOOLEAN
    /\ lib_emb = EmptyArray /\ lib_meta = <<>>
    /\ pc = "main_first"
    /\ Idle

InitLoad ==
    /\ entry = "load_data"
    /\ file \in LoadFiles
    /\ env_key = None /\ model_loads = TRUE
    /\ lib_emb = EmptyArray /\ lib_meta = <<>>
    /\ pc = "idle"
    /\ Idle

InitLibrary ==
    /\ entry = "library"
    /\ file = MissingFile
    /\ env_key = None /\ model_loads = TRUE
    /\ \E n \in 0..MaxRecords : lib_meta = LibMeta(n) /\ lib_emb \in LibEmbeddings(n)
    /\ pc = "idle"
    /\ Idle

Init == InitService \/ InitLoad \/ InitLibrary

(***************************************************************************)
(* The /recommend handler, main.py recommend.                              *)
(***************************************************************************)
service_env == <<entry, file, env_key, model_loads>>
others == <<load_out, lib_emb, lib_meta, lib_index, lib_out, main_out, main_engine>>
counts == <<pipeline_runs, builds>>

\* A request arrives.
Request ==
    /\ entry = "service" /\ pc = "idle"
    /\ cache.set \/ pipeline_runs < MaxSetups
    /\ \E q \in Queries : req' = [NoReq EXCEPT !.query = q]
    /\ pc' = "get_engine"
    /\ response' = NoResponse
    /\ UNCHANGED <<service_env, cache, others, counts>>

\* get_engine(): the cached engine, or setup_engine() when nothing is cached
\* (lru_cache keeps no result of a call that raised).
GetEngine ==
    /\ entry = "service" /\ pc = "get_engine"
    /\ IF cache.set
       THEN /\ pc' = "enrich"
            /\ UNCHANGED <<cache, response, counts>>
       ELSE \E encoded \in Encodings(IF LoadData(file).ok THEN Len(LoadData(file).val) ELSE 0) :
              LET e == SetupEngine(file, env_key, model_loads, encoded)
              IN  /\ pipeline_runs' = pipeline_runs + 1
                  /\ IF e.ok
                     THEN /\ cache' = e.val /\ pc' = "enrich"
                          /\ builds' = builds + 1
                          /\ UNCHANGED response
                     ELSE /\ pc' = "idle" /\ response' = Http500
                          /\ UNCHANGED <<cache, builds>>
    /\ UNCHANGED <<service_env, req, others>>

\* enriched_query: the original query, or what enrich_query_with_gemini returns.
Enrich ==
    /\ entry = "service" /\ pc = "enrich"
    /\ IF Truthy(cache.key)
       THEN \E http \in HttpOutcomes :
              LET out == EnrichQuery(req.query, cache.key, http)
              IN  /\ req' = [req EXCEPT !.http = http, !.enrich_out = out,
                                        !.enrich_calls = @ + 1,
                                        !.enriched = IF out.ok THEN out.val ELSE @]
                  /\ IF out.ok
                     THEN pc' = "search" /\ UNCHANGED response
                     ELSE pc' = "idle" /\ response' = Http500
       ELSE /\ req' = [req EXCEPT !.enriched = req.query]
            /\ pc' = "search"
            /\ UNCHANGED response
    /\ UNCHANGED <<service_env, cache, others, counts>>

\* get_top_k_recommendations(enriched_query, model, index, data, top_k=10)
Search ==
    /\ entry = "service" /\ pc = "search"
    /\ \E qv \in Vectors :
         \E labels \in FaissSearch(cache.index, qv, TopKService) :
            LET call == TopKCall(qv, cache.index, cache.data, TopKService, labels)
            IN  /\ req' = [req EXCEPT !.call = call, !.http = NoHttp,
                                      !.embedded = EnhancedQuery(req.enriched)]
                /\ IF call.out.ok
                   THEN pc' = "format" /\ UNCHANGED response
                   ELSE pc' = "idle" /\ response' = Http500
    /\ UNCHANGED <<service_env, cache, others, counts>>

\* The formatting loop, the return and the validation of the response.
Format ==
    /\ entry = "service" /\ pc = "format"
    /\ LET formatted == FormatAll(req.call.out.val)
       IN  response' = IF formatted.ok /\ ValidResponse(formatted.val)
                       THEN Response(200, formatted.val)
                       ELSE Http500
    /\ pc' = "idle"
    /\ UNCHANGED <<service_env, cache, req, others, counts>>

NextService == Request \/ GetEngine \/ Enrich \/ Search \/ Format

(***************************************************************************)
(* Direct calls of the library functions.                                  *)
(***************************************************************************)
CallLoadData ==
    /\ entry = "load_data" /\ load_out = NotCalled
    /\ load_out' = LoadData(file)
    /\ UNCHANGED <<service_env, cache, pc, req, response, lib_emb, lib_meta, lib_index, lib_out,
                   counts, main_out, main_engine>>

NextLoad == CallLoadData

CallCreateFaissIndex ==
    /\ entry = "library" /\ lib_index = NotCalled
    /\ lib_index' = CreateFaissIndex(lib_emb)
    /\ UNCHANGED <<service_env, cache, pc, req, response, load_out, lib_emb, lib_meta, lib_out,
                   counts, main_out, main_engine>>

CallGetTopK ==
    /\ entry = "library" /\ lib_index.ok /\ lib_out = NoCall
    /\ \E qv \in Vectors, k \in LibKs :
         \E labels \in FaissSearch(lib_index.val, qv, k) :
            lib_out' = TopKCall(qv, lib_index.val, lib_meta, k, labels)
    /\ UNCHANGED <<service_env, cache, pc, req, response, load_out, lib_emb, lib_meta, lib_index,
                   counts, main_out, main_engine>>

NextLibrary == CallCreateFaissIndex \/ CallGetTopK

(***************************************************************************)
(* The command line, engine.py main: two try blocks, one after the other.  *)
(***************************************************************************)
\* The print loop reads r['description'][:200] of every result.
PrintResults(results) ==
    IF \E i \in 1..Len(results) : results[i].description.t \notin {"str", "list"}
    THEN Raise("TypeError")
    ELSE Return(None)

\* What model.encode returns in a block: the model is a fixed function, so
\* a block that embeds the catalog again gets the embeddings it got before.
MainEncodings ==
    IF main_engine.set THEN {Matrix(main_engine.index)}
    ELSE Encodings(IF LoadData(file).ok THEN Len(LoadData(file).val) ELSE 0)

\* One try block up to its except clauses: the pipeline, the prompt (Ctrl+C
\* raises KeyboardInterrupt there), the query and the print loop.  enrich
\* tells whether the block calls enrich_query_with_gemini, reraise whether
\* its except clause raises the exception again.
MainBlock(enrich, reraise, next_pc) ==
    \E encoded \in MainEncodings :
        LET e == SetupEngine(file, env_key, model_loads, encoded)
        IN  /\ pipeline_runs' = pipeline_runs + 1
            /\ builds' = IF e.ok THEN builds + 1 ELSE builds
            /\ main_engine' = IF e.ok THEN e.val ELSE main_engine
            /\ pc' = next_pc
            /\ IF ~e.ok
               THEN /\ main_out' = IF reraise THEN Raise(e.err) ELSE main_out
                    /\ UNCHANGED req
               ELSE \E interrupted \in BOOLEAN :
                    IF interrupted
                    THEN /\ main_out' = IF reraise THEN Return(None) ELSE main_out
                         /\ UNCHANGED req
                    ELSE \E q \in Queries, qv \in Vectors,
                            http \in IF enrich THEN HttpOutcomes ELSE {NoHttp} :
                         \E labels \in FaissSearch(e.val.index, qv, TopKDefault) :
                            LET text == IF enrich THEN EnrichQuery(q, env_key, http).val ELSE q
                                call == TopKCall(qv, e.val.index, e.val.data, TopKDefault, labels)
                            IN  /\ req' = [NoReq EXCEPT !.query = q, !.enriched = text,
                                                        !.enrich_calls = IF enrich THEN 1 ELSE 0,
                                                        !.embedded = EnhancedQuery(text),
                                                        !.call = call]
                                /\ main_out' = IF ~reraise THEN main_out
                                               ELSE IF call.out.ok THEN PrintResults(call.out.val)
                                               ELSE call.out

\* The first block logs any exception and goes on.
MainFirst ==
    /\ entry = "cli" /\ pc = "main_first"
    /\ MainBlock(TRUE, FALSE, "main_second")
    /\ UNCHANGED <<service_env, cache, response, load_out, lib_emb, lib_meta, lib_index, lib_out>>

\* The second block re-raises any exception: main_out is how main() ends.
MainSecond ==
    /\ entry = "cli" /\ pc = "main_second"
    /\ MainBlock(FALSE, TRUE, "main_done")
    /\ UNCHANGED <<service_env, cache, response, load_out, lib_emb, lib_meta, lib_index, lib_out>>

NextCli == MainFirst \/ MainSecond

Next == NextService \/ NextLoad \/ NextLibrary

Spec        == Init /\ [][Next]_vars
SpecCli     == InitCli /\ [][NextCli]_vars
SpecService == InitService /\ [][NextService]_vars
SpecLoad    == InitLoad /\ [][NextLoad]_vars
SpecLibrary == InitLibrary /\ [][NextLibrary]_vars

(***************************************************************************)
(* Properties.                                                             *)
(***************************************************************************)
\* A response of the enrichment endpoint that is well formed all the way:
\* sent, no error status, JSON, and a str at candidates[0].content.parts[0].text.
FullyWellFormed(http) ==
    /\ ~http.raised
    /\ http.status < 400
    /\ http.body.t = "dict" /\ "candidates" \in DOMAIN http.body.v
    /\ LET cands == http.body.v["candidates"]
       IN  /\ cands.t = "list" /\ Len(cands.v) >= 1
           /\ cands.v[1].t = "dict" /\ "content" \in DOMAIN cands.v[1].v
           /\ LET content == cands.v[1].v["content"]
              IN  /\ content.t = "dict" /\ "parts" \in DOMAIN content.v
                  /\ LET parts == content.v["parts"]
                     IN  /\ parts.t = "list" /\ Len(parts.v) >= 1
                         /\ parts.v[1].t = "dict" /\ "text" \in DOMAIN parts.v[1].v
                         /\ parts.v[1].v["text"].t = "str"

\* C1: enrich_query_with_gemini never raises, and unless the response is
\* fully well formed it returns the prompt exactly as it was passed in.
C1_EnrichFallsBack ==
    req.http # NoHttp =>
        /\ req.enrich_out.ok
        /\ ~FullyWellFormed(req.http) => req.enrich_out.val = req.query

C1_Witness ==
    /\ req.http = Http(FALSE, 200, GeminiBody(Num(5)))
    /\ req.query = Str(<<" ", "j", " ">>)
    /\ req.enrich_out = Return(req.query)

\* C2: once setup_engine has succeeded, the index holds exactly one vector
\* per catalog record, one record per raw record of the file, whatever
\* requests have been served since.
C2_IndexSizeIsCatalogSize ==
    cache.set =>
        /\ Len(cache.index) = Len(cache.data)
        /\ Len(cache.data) = Len(file.content.v)
        /\ Len(cache.data) >= 1

C2_Witness ==
    /\ cache.set /\ Len(cache.index) = 2 /\ Len(cache.data) = 2
    /\ pc = "idle" /\ response.status = 200

\* The 1-based catalog position each label of a call fetched.
Fetched(call, N) == [j \in 1..Len(call.labels) |-> ListPosition(N, call.labels[j])]

\* C3: every index get_top_k_recommendations uses is a catalog position in
\* 0..N-1, and no position is used twice.
C3_ValidDistinctPositions ==
    (lib_out.out.ok /\ lib_meta # <<>>) =>
        /\ \A j \in 1..Len(lib_out.labels) : lib_out.labels[j] \in 0..(Len(lib_meta) - 1)
        /\ \A i, j \in 1..Len(lib_out.labels) :
              i # j => Fetched(lib_out, Len(lib_meta))[i] # Fetched(lib_out, Len(lib_meta))[j]

\* C4: the returned records are in ascending order of L2 distance to the
\* query, and no record left out is strictly nearer than a returned one.
C4_AscendingDistance ==
    (lib_out.out.ok /\ lib_meta # <<>>) =>
        LET pos == Fetched(lib_out, Len(lib_meta))
            d(p) == L2(lib_out.qv, lib_index.val[p])
        IN  /\ \A j \in 1..(Len(pos) - 1) : d(pos[j]) <= d(pos[j + 1])
            /\ \A p \in 1..Len(lib_meta) :
                  (\A j \in 1..Len(pos) : pos[j] # p) =>
                      \A j \in 1..Len(pos) : d(pos[j]) <= d(p)

\* C5: get_top_k_recommendations called with top_k = K returns at most K
\* records, and /recommend never returns more than 10 assessments.
C5_AtMostK ==
    /\ lib_out.out.ok => Len(lib_out.out.val) <= lib_out.k
    /\ req.call.out.ok => Len(req.call.out.val) <= TopKService
    /\ Len(response.recommended_assessments) <= TopKService

C5_Witness ==
    /\ lib_out.out.ok /\ lib_out.k = 2 /\ Len(lib_meta) = 3
    /\ Len(lib_out.out.val) = 2

\* The file holds a non-empty JSON list of objects.
IsRecordList(f) ==
    /\ f.exists /\ f.content.t = "list" /\ f.content.v # <<>>
    /\ \A i \in 1..Len(f.content.v) : f.content.v[i].t = "dict"

\* C6: load_data on a non-empty list of records returns one normalized
\* record per raw record, in order, with '' in every field the raw record
\* lacks.
C6_MissingFieldsBecomeEmpty ==
    (load_out # NotCalled /\ IsRecordList(file)) =>
        /\ load_out.ok
        /\ Len(load_out.val) = Len(file.content.v)
        /\ \A i \in 1..Len(file.content.v) : \A k \in NormalizedFields :
              IF SourceOf[k] \in DOMAIN file.content.v[i].v
              THEN load_out.val[i][k] = file.content.v[i].v[SourceOf[k]]
              ELSE load_out.val[i][k] = EmptyStr

C6_Witness ==
    /\ file.content = List(<<Dict([k \in {"Title", "Detail Page"} |-> ScrapedValue[k]])>>)
    /\ load_out.ok
    /\ load_out.val[1].description = EmptyStr
    /\ load_out.val[1].url = Str(<<"u">>)

\* C7: every record load_data returns has all ten normalized fields, none
\* of them null.
C7_NoNullField ==
    load_out.ok =>
        \A i \in 1..Len(load_out.val) :
            /\ DOMAIN load_out.val[i] = NormalizedFields
            /\ \A k \in NormalizedFields : load_out.val[i][k] # None

\* C8: load_data raises when the file is missing, is not JSON, or holds an
\* empty list or something that is not a list; it never returns an empty
\* catalog.
C8_BadFileRaises ==
    load_out # NotCalled =>
        /\ (~file.exists \/ file.content.t # "list" \/ file.content.v = <<>>) => ~load_out.ok
        /\ load_out.ok => load_out.val # <<>>

C8_Witness ==
    /\ file = File(TRUE, List(<<>>))
    /\ load_out = Raise("ValueError")

\* C9: a response is either built from every record of the ranked list, or
\* an HTTP 500 with no recommendations.
C9_NoPartialResult ==
    response # NoResponse =>
        \/ /\ response.status = 200
           /\ req.call.out.ok
           /\ Len(response.recommended_assessments) = Len(req.call.out.val)
           /\ \A i \in 1..Len(req.call.out.val) :
                 /\ FormatResult(req.call.out.val[i]).ok
                 /\ response.recommended_assessments[i] = FormatResult(req.call.out.val[i]).val
        \/ /\ response.status = 500
           /\ response.recommended_assessments = <<>>

C9_Witness ==
    /\ response = Http500
    /\ req.call.out.ok
    /\ \E i \in 1..Len(req.call.out.val) : FormatResult(req.call.out.val[i]).ok
    /\ \E i \in 1..Len(req.call.out.val) : ~FormatResult(req.call.out.val[i]).ok

\* C10: with a catalog of zero records no list is ever returned: load_data,
\* create_faiss_index on the embeddings of no text, and
\* get_top_k_recommendations raise, and the service answers no request.
C10_NoResultForEmptyCatalog ==
    /\ (file.exists /\ file.content = List(<<>>)) =>
          /\ ~load_out.ok
          /\ ~cache.set /\ ~req.call.out.ok /\ response.status # 200
    /\ (entry = "library" /\ lib_meta = <<>>) =>
          /\ lib_emb = EmptyArray => ~lib_index.ok
          /\ ~lib_out.out.ok

C10_Witness ==
    /\ lib_meta = <<>> /\ lib_index = Return(<<>>)
    /\ lib_out.k >= 1 /\ lib_out.out = Raise("IndexError")

\* C11: the load -> embed -> index pipeline runs at most once in a process:
\* the service never runs setup_engine a second time, and one run of the
\* command-line main builds one index.
C11_PipelineRunsOnce ==
    /\ entry = "service" => pipeline_runs <= 1
    /\ entry = "cli" => builds <= 1

C12_FailedSetupState ==
    /\ (entry = "service" /\ pipeline_runs > builds) =>
          /\ ~cache.set /\ builds = 0
          /\ \/ pc = "idle" /\ response.status = 500
                            /\ response.recommended_assessments = <<>>
             \/ pc = "get_engine" /\ response = NoResponse
    /\ (entry = "service" /\ pc \in {"enrich", "search", "format"}) => cache.set

C12_SetupRetried ==
    (entry = "service" /\ pc = "get_engine" /\ ~cache.set /\ pc' # pc) =>
        pipeline_runs' = pipeline_runs + 1

Enriched == pc \in {"search", "format"} \/ req.embedded # None

\* The steps of a request in their order: no enrichment, embedding or search
\* before its turn, and the text embedded is the enriched text.
C13_Order ==
    entry = "service" =>
        /\ req.enrich_calls <= 1
        /\ pc \in {"get_engine", "enrich"} =>
              req.enrich_calls = 0 /\ req.embedded = None /\ req.call = NoCall
        /\ pc = "search" => req.embedded = None /\ req.call = NoCall
        /\ Enriched => (req.enrich_calls = 1 <=> Truthy(env_key))
        /\ req.call # NoCall => req.embedded # None
        /\ response.status = 200 => req.call.out.ok
        /\ req.embedded # None =>
              /\ req.embedded.v = <<"Find assessments matching: ">> \o req.enriched.v
              /\ ~Truthy(env_key) =>
                    req.embedded.v = <<"Find assessments matching: ">> \o req.query.v

\* The step that embeds: after a failed enrichment call, or none, it embeds
\* the original query.
C13_EmbedsOriginal ==
    (entry = "service" /\ pc = "search" /\ pc' # pc
        /\ (req.enrich_calls = 0 \/ ~FullyWellFormed(req.http))) =>
            req'.embedded.v = <<"Find assessments matching: ">> \o req.query.v

\* C13: in a /recommend request the enrichment call is made if and only if
\* an API key was found, at most once, and before the query is embedded;
\* the search follows the embedding and the response the search; without a
\* key, or when the call fails, the text embedded is built from the
\* original query unchanged.
C13_EnrichThenEmbedThenSearch == []C13_Order /\ [][C13_EmbedsOriginal]_vars

C13_Witness ==
    /\ entry = "service" /\ Truthy(env_key)
    /\ req.query = Str(<<" ", "j", " ">>)
    /\ req.enrich_calls = 1 /\ req.enriched = req.query
    /\ req.embedded = Str(<<"Find assessments matching: ", " ", "j", " ">>)
    /\ req.call.out.ok /\ response.status = 200
====
